---- MODULE Spec2Model ----
(***************************************************************************)
(* Model of the Zed extension in src/lib.rs: the unit struct               *)
(* TailscaleNetworkManagementExtension and its context_server_command,     *)
(* called by host threads.  A String is a sequence of one-character        *)
(* strings, so that comparison, concatenation and containment are          *)
(* computed character by character.                                        *)
(***************************************************************************)
EXTENDS Naturals, Sequences, FiniteSets

\* ---- bounds of the model ----
MaxCalls == 3
NumThreads == 2

Threads == 1..NumThreads
\* zed::Project handles the host may pass (opaque to the extension)
Projects == {"p1", "p2"}

\* ---- string literals of the source ----
\* "tailscale-mcp" (the match arm)
KnownId == <<"t","a","i","l","s","c","a","l","e","-","m","c","p">>
\* "uv"
CommandLit == <<"u","v">>
\* "run"
RunLit == <<"r","u","n">>
\* "tailscale-mcp.main:main"
MainLit == <<"t","a","i","l","s","c","a","l","e","-","m","c","p",
             ".","m","a","i","n",":","m","a","i","n">>
\* "Unknown server: " (the text of the format string before {})
UnknownPrefix == <<"U","n","k","n","o","w","n"," ","s","e","r","v","e","r",":"," ">>

\* ---- identifiers the host passes in this model ----
EmptyId == <<>>
FooId == <<"f","o","o">>
Known2Id == KnownId \o <<"2">>
UpperId == <<"T","a","i","l","s","c","a","l","e","-","M","C","P">>
PaddedId == <<" ">> \o KnownId \o <<" ">>
Ids == {KnownId, EmptyId, FooId, Known2Id, UpperId, PaddedId}

\* ---- the extension instance: a unit struct, no fields ----
TailscaleNetworkManagementExtension == <<>>

\* Default::default() for the env field: no entries
DefaultEnv == <<>>

\* `{}` in format!: Display of a String writes its characters, one by one
\* (variant: `{:?}` writes the string in quotes)
DisplayDebug(s) == <<"\"">> \o s \o <<"\"">>
Display(s) == [i \in 1..Len(s) |-> s[i]]

\* format!("Unknown server: {}", id.0)
\* (variant: the argument is left out)
FormatUnknownNoId(id) == UnknownPrefix
FormatUnknown(id) == UnknownPrefix \o Display(id)

\* zed::Command { command, args, env } of the "tailscale-mcp" arm
\* (variant: the two arguments in the other order)
CommandSwapped == [command |-> CommandLit, args |-> <<MainLit, RunLit>>, env |-> DefaultEnv]
Command == [command |-> CommandLit, args |-> <<RunLit, MainLit>>, env |-> DefaultEnv]

Ok(v) == [tag |-> "Ok", value |-> v]
Err(e) == [tag |-> "Err", error |-> e]

\* ---- fn context_server_command(&mut self, id, _project) ----
\* Returns the instance as the call leaves it, and the Result.

\* variant: starts_with instead of equality in the match
context_server_command_prefix(self, id, project) ==
    [self |-> self,
     result |-> IF Len(id) >= Len(KnownId) /\ SubSeq(id, 1, Len(KnownId)) = KnownId
                THEN Ok(Command)
                ELSE Err(FormatUnknown(id))]

\* variant: the instance remembers that the server was handed out
context_server_command_once(self, id, project) ==
    IF id = KnownId /\ self = <<>>
    THEN [self |-> Append(self, id), result |-> Ok(Command)]
    ELSE [self |-> self, result |-> Err(FormatUnknown(id))]

\* variant: the project handle is passed on in env
context_server_command_project(self, id, project) ==
    [self |-> self,
     result |-> IF id = KnownId
                THEN Ok([Command EXCEPT !.env = <<project>>])
                ELSE Err(FormatUnknown(id))]

\* variant: the instance keeps the identifiers it was asked for
context_server_command_record(self, id, project) ==
    [self |-> Append(self, id),
     result |-> IF id = KnownId THEN Ok(Command) ELSE Err(FormatUnknown(id))]

\* variant: the first byte of the identifier is read, which panics on ""
context_server_command_panic(self, id, project) ==
    [self |-> self,
     result |-> IF id = KnownId THEN Ok(Command)
                ELSE IF id = EmptyId THEN [tag |-> "Panic"]
                ELSE Err(FormatUnknown(id))]

\* the code: match id.0.as_str() { "tailscale-mcp" => Ok(..), _ => Err(..) }
context_server_command(self, id, project) ==
    [self |-> self,
     result |-> IF id = KnownId THEN Ok(Command) ELSE Err(FormatUnknown(id))]

\* to_string(), vec! and format! build the returned value in a new allocation
Alloc(heap) == heap + 1

\* ---- state ----
VARIABLES
    ext,        \* the registered extension instance
    pc,         \* pc[t]: "idle", or "called" while t's call is in flight
    frame,      \* frame[t]: the arguments of t's call in flight
    heap,       \* number of allocations made so far
    returned,   \* the calls that have returned, in order of return
    raced       \* TRUE once a call has returned while another was in flight

vars == <<ext, pc, frame, heap, returned, raced>>

NoFrame == [id |-> <<>>, project |-> "none"]

InFlight == {t \in Threads : pc[t] = "called"}

\* register_extension!: one instance, no call made yet
Init ==
    /\ ext = TailscaleNetworkManagementExtension
    /\ pc = [t \in Threads |-> "idle"]
    /\ frame = [t \in Threads |-> NoFrame]
    /\ heap = 0
    /\ returned = <<>>
    /\ raced = FALSE

\* a host thread calls context_server_command(id, project)
Invoke(t, id, project) ==
    /\ pc[t] = "idle"
    /\ Len(returned) + Cardinality(InFlight) < MaxCalls
    /\ pc' = [pc EXCEPT ![t] = "called"]
    /\ frame' = [frame EXCEPT ![t] = [id |-> id, project |-> project]]
    /\ UNCHANGED <<ext, heap, returned, raced>>

\* (variant: one argument slot for all threads, the lowest thread's in flight)
ArgsShared(t) == frame[CHOOSE u \in InFlight : \A v \in InFlight : u <= v]

\* the arguments a call of t runs on: its own id and _project
Args(t) == frame[t]

\* the body runs and the call returns to the host
Execute(t) ==
    /\ pc[t] = "called"
    /\ LET a == Args(t)
           r == context_server_command(ext, a.id, a.project)
           p == Alloc(heap)
       IN /\ ext' = r.self
          /\ heap' = p
          /\ returned' = Append(returned,
                 [id |-> frame[t].id, project |-> frame[t].project,
                  result |-> r.result, addr |-> p])
          /\ raced' = (raced \/ InFlight # {t})
    /\ pc' = [pc EXCEPT ![t] = "idle"]
    /\ frame' = [frame EXCEPT ![t] = NoFrame]

Next ==
    \E t \in Threads :
        \/ \E id \in Ids, project \in Projects : Invoke(t, id, project)
        \/ Execute(t)

Spec == Init /\ [][Next]_vars

\* ---- helpers of the properties ----
Calls == 1..Len(returned)

\* needle occurs in hay as a contiguous run of characters
Contains(hay, needle) ==
    \E i \in 0..(Len(hay) - Len(needle)) :
        \A k \in 1..Len(needle) : hay[i + k] = needle[k]

\* msg without its first Len(UnknownPrefix) characters
StripPrefix(msg) == SubSeq(msg, Len(UnknownPrefix) + 1, Len(msg))

\* the result of the same call on a newly registered instance, nothing else running
RunAlone(id, project) ==
    context_server_command(TailscaleNetworkManagementExtension, id, project).result

\* C1: every call with the identifier "tailscale-mcp" returns Ok with command
\* "uv", exactly the two arguments "run", "tailscale-mcp.main:main" in that
\* order, and an environment without entries.
C1_KnownIdLaunchSpec ==
    \A n \in Calls : LET e == returned[n] IN
        e.id = <<"t","a","i","l","s","c","a","l","e","-","m","c","p">> =>
            /\ e.result.tag = "Ok"
            /\ e.result.value.command = <<"u","v">>
            /\ Len(e.result.value.args) = 2
            /\ e.result.value.args[1] = <<"r","u","n">>
            /\ e.result.value.args[2] = MainLit
            /\ Len(e.result.value.env) = 0

C1_Witness ==
    \E n \in Calls : LET e == returned[n] IN e.id = KnownId /\ e.result.tag = "Ok"

\* C2: every call with an identifier other than "tailscale-mcp" returns Err,
\* and the message contains the identifier as a contiguous substring.
C2_UnknownIdFails ==
    \A n \in Calls : LET e == returned[n] IN
        e.id # KnownId =>
            /\ e.result.tag = "Err"
            /\ Contains(e.result.error, e.id)

C2_Witness ==
    /\ \E n \in Calls : LET e == returned[n] IN e.id = EmptyId /\ e.result.tag = "Err"
    /\ \E n \in Calls : LET e == returned[n] IN e.id = Known2Id /\ e.result.tag = "Err"
    /\ \E n \in Calls : LET e == returned[n] IN e.id = UpperId /\ e.result.tag = "Err"

\* C3: in every reachable state a call yields Ok iff its identifier is
\* "tailscale-mcp": the calls that returned did so, and the set of identifiers
\* a call made now would succeed on is exactly {"tailscale-mcp"}.
C3_ExactlyOneIdSucceeds ==
    /\ \A n \in Calls : LET e == returned[n] IN (e.result.tag = "Ok") <=> (e.id = KnownId)
    /\ \A p \in Projects :
          {id \in Ids : context_server_command(ext, id, p).result.tag = "Ok"}
              = {KnownId}

C3_Witness ==
    /\ Len(returned) = 3
    /\ returned[1].id = KnownId /\ returned[1].result.tag = "Ok"
    /\ returned[2].id = Known2Id /\ returned[2].result.tag = "Err"
    /\ returned[3].id = KnownId /\ returned[3].result.tag = "Ok"

\* C4: any two calls with the same identifier return equal results, whatever
\* calls returned before or between them.
C4_Deterministic ==
    \A i, j \in 1..Len(returned) :
        returned[i].id = returned[j].id =>
            returned[i].result = returned[j].result

C4_Witness ==
    \E i, k, j \in 1..Len(returned) :
        /\ i < k /\ k < j
        /\ returned[i].id = FooId /\ returned[j].id = FooId
        /\ returned[k].id = KnownId
        /\ returned[i].result = returned[j].result

\* C5: two calls with the same identifier and different project values return
\* equal results.
C5_ProjectIgnored ==
    \A i, j \in Calls :
        (returned[i].id = returned[j].id /\ returned[i].project # returned[j].project)
            => returned[i].result = returned[j].result

C5_Witness ==
    /\ \E i, j \in Calls :
          /\ returned[i].id = KnownId /\ returned[j].id = KnownId
          /\ returned[i].project # returned[j].project
    /\ \E n \in Calls : LET e == returned[n] IN e.id = UpperId /\ e.result.tag = "Err"

\* C6: under any interleaving of the threads' calls, every call returns what
\* it returns when run alone with the same arguments, and a call in flight
\* holds the arguments its caller passed.
C6_ConcurrentAsAlone ==
    /\ \A n \in Calls : LET e == returned[n] IN e.result = RunAlone(e.id, e.project)
    /\ \A t \in InFlight : frame[t].id \in Ids /\ frame[t].project \in Projects
    /\ \A t \in Threads \ InFlight : frame[t] = NoFrame

C6_Witness ==
    /\ raced
    /\ Len(returned) = 2
    /\ returned[1].result.tag # returned[2].result.tag
    /\ InFlight # {}

\* C7: a call changes nothing but what it returns: the instance stays the
\* unit value, the results returned earlier and the other threads' calls in
\* flight are untouched, and every returned value is in an allocation of its
\* own.
C7_Fresh ==
    \A i, j \in 1..Len(returned) :
        i # j => returned[i].addr # returned[j].addr

C7_Frame ==
    /\ ext' = ext
    /\ ext' = TailscaleNetworkManagementExtension
    /\ Len(returned') >= Len(returned)
    /\ \A i \in 1..Len(returned) : returned'[i] = returned[i]
    /\ \A t \in Threads :
          (pc[t] = "called" /\ pc'[t] = "idle") =>
              \A u \in Threads \ {t} : pc'[u] = pc[u] /\ frame'[u] = frame[u]

C7_NoSideEffects == []C7_Fresh /\ [][C7_Frame]_vars

C7_Witness ==
    /\ \E i, j \in 1..Len(returned) :
          /\ i # j
          /\ returned[i].id = KnownId /\ returned[j].id = KnownId
          /\ returned[i].result = returned[j].result
          /\ returned[i].addr # returned[j].addr
    /\ \E n \in Calls : LET e == returned[n] IN e.result.tag = "Err"
    /\ ext = TailscaleNetworkManagementExtension

\* C8: every call returns, in one step, either Ok with a LaunchSpec that has
\* its three fields command, args and env, or Err with a message; never a
\* record with fewer fields or with both, and a call in flight can always
\* return.
C8_NoPartialFailure ==
    /\ \A n \in Calls : LET e == returned[n] IN
          \/ /\ e.result.tag = "Ok"
             /\ DOMAIN e.result = {"tag", "value"}
             /\ DOMAIN e.result.value = {"command", "args", "env"}
             /\ Len(e.result.value.command) > 0
             /\ Len(e.result.value.args) > 0
          \/ /\ e.result.tag = "Err"
             /\ DOMAIN e.result = {"tag", "error"}
             /\ Len(e.result.error) > 0
    /\ \A t \in Threads : pc[t] = "called" => ENABLED Execute(t)

C8_Witness ==
    /\ \E n \in Calls : LET e == returned[n] IN e.id = EmptyId /\ e.result.tag = "Err"
    /\ \E n \in Calls : LET e == returned[n] IN e.id = KnownId /\ e.result.tag = "Ok"
    /\ InFlight # {}

\* C9: the message of a failed call is "Unknown server: " followed by the
\* identifier unchanged; removing the first 16 characters gives back the
\* identifier, and for the empty identifier the message is the prefix alone.
C9_MessageIsPrefixThenId ==
    \A n \in Calls : LET e == returned[n] IN
        e.result.tag = "Err" =>
            /\ e.result.error = UnknownPrefix \o e.id
            /\ Len(e.result.error) = 16 + Len(e.id)
            /\ StripPrefix(e.result.error) = e.id
            /\ (e.id = EmptyId => e.result.error = UnknownPrefix)

C9_Witness ==
    /\ \E n \in Calls : LET e == returned[n] IN
          e.id = EmptyId /\ e.result.tag = "Err" /\ e.result.error = UnknownPrefix
    /\ \E n \in Calls : LET e == returned[n] IN
          e.id = PaddedId /\ e.result.tag = "Err" /\ StripPrefix(e.result.error) = PaddedId

====
